---- MODULE Spec2Model ----
(***************************************************************************)
(* Model of wf/__init__.py: the orthosnap_task adapter that turns typed    *)
(* workflow parameters into an argument vector for the external orthosnap  *)
(* executable, runs it with subprocess.run and wraps the fixed local       *)
(* output directory as a LatchDir.                                         *)
(*                                                                         *)
(* Optional values are modelled as sequences: <<>> is Python's None and    *)
(* <<v>> is the value v.  Floats are modelled in tenths (700 is 70.0,      *)
(* 755 is 75.5), so that str() of a float is computed, not assumed.        *)
(***************************************************************************)
EXTENDS Integers, Sequences, FiniteSets, TLC

VARIABLES
    pc,                 \* position of the task: "idle", "l77", ..., "done", "raised"
    args,               \* the call's arguments as the caller wrote them
    inparalog_to_keep,  \* local: member name of InparalogToKeep
    rooted,             \* local: bool
    snap_trees,         \* local: bool
    support,            \* local: Optional[float], in tenths
    occupancy,          \* local: Optional[int]
    orthosnap_cmd,      \* local: _orthosnap_cmd, the argument vector
    tool_runs,          \* argument vectors handed to subprocess.run by this call
    exit_status,        \* <<>> while no subprocess of this call has finished, else <<code>>
    result,             \* <<>> or <<the returned LatchDir>>
    fs,                 \* local filesystem: set of [dir, owner] output files
    calls               \* number of invocations started so far

vars == <<pc, args, inparalog_to_keep, rooted, snap_trees, support, occupancy,
          orthosnap_cmd, tool_runs, exit_status, result, fs, calls>>

\* ---------------------------------------------------------------- bounds

MaxCalls == 2

\* ------------------------------------------------------------ input sets

None == <<>>
Some(v) == <<v>>

TreeFiles ==
    { [local_path |-> "/tmp/tree_a.tre", remote_path |-> "latch:///tree_a.tre"],
      [local_path |-> "/tmp/tree_b.tre", remote_path |-> "latch:///tree_b.tre"] }

FastaFiles ==
    { [local_path |-> "/tmp/fam_a.fa", remote_path |-> "latch:///fam_a.fa"],
      [local_path |-> "/tmp/fam_b.fa", remote_path |-> "latch:///fam_b.fa"] }

OutputDirs ==
    { [local_path |-> "/tmp/out_x", remote_path |-> "latch:///out_x/"],
      [local_path |-> "/tmp/out_y", remote_path |-> "latch:///out_y/"] }

\* supplied support values, in tenths: 70.0, 75.5 or None
SupportValues == { None, Some(700), Some(755) }

\* supplied occupancy values: 1, 8 or None
OccupancyValues == { None, Some(1), Some(8) }

\* exit statuses of the external tool
ExitCodes == { 0, 1, 2 }

\* parameters that have a default and may be left out by the caller
Defaulted == { "rooted", "snap_trees", "support", "occupancy" }

\* ------------------------------------------------- the program's constants

\* class InparalogToKeep(Enum): member name |-> value
InparalogToKeep ==
    [ none                |-> "none",
      shortest_seq_len    |-> "shortest_seq_len",
      median_seq_len      |-> "median_seq_len",
      longest_seq_len     |-> "longest_seq_len",
      shortest_branch_len |-> "shortest_branch_len",
      median_branch_len   |-> "median_branch_len",
      longest_branch_len  |-> "longest_branch_len" ]

\* defaults of the signature of orthosnap_task
default_rooted == FALSE
default_snap_trees == FALSE
default_support == Some(800)
default_occupancy == Some(5)

\* local_dir = "/root/orthosnap_output/"
local_dir == "/root/orthosnap_output/"

\* LatchDir(path, remote_path)
LatchDir(path, remote) == [local_path |-> path, remote_path |-> remote]

\* ------------------------------------------------------------ conversions

\* str(x) of an Optional[float] held in tenths: repr of the float, which
\* always carries a fractional part ("70.0", "75.5"); str(None) is "None".
StrFloat(x) ==
    IF x = None THEN "None"
    ELSE LET t == x[1]
             a == IF t < 0 THEN -t ELSE t
         IN  (IF t < 0 THEN "-" ELSE "") \o ToString(a \div 10) \o "." \o ToString(a % 10)

\* str(x) of an Optional[int]
StrInt(x) == IF x = None THEN "None" ELSE ToString(x[1])

\* ------------------------------------------------------------- the state

ArgSets ==
    { a \in [ multi_copy_gene_tree  : TreeFiles,
              multi_copy_fasta_file : FastaFiles,
              output_dir            : OutputDirs,
              inparalog_to_keep     : DOMAIN InparalogToKeep,
              omitted               : SUBSET Defaulted,
              rooted                : BOOLEAN,
              snap_trees            : BOOLEAN,
              support               : SupportValues \cup {default_support},
              occupancy             : OccupancyValues \cup {default_occupancy} ] :
        \* an omitted parameter carries no value of the caller's
        /\ "rooted" \in a.omitted => a.rooted = default_rooted
        /\ "snap_trees" \in a.omitted => a.snap_trees = default_snap_trees
        /\ "support" \in a.omitted => a.support = default_support
        /\ "occupancy" \in a.omitted => a.occupancy = default_occupancy }

NoArgs == CHOOSE a \in ArgSets : TRUE

Init ==
    /\ pc = "idle"
    /\ args = NoArgs
    /\ inparalog_to_keep = "none"
    /\ rooted = FALSE
    /\ snap_trees = FALSE
    /\ support = None
    /\ occupancy = None
    /\ orthosnap_cmd = <<>>
    /\ tool_runs = <<>>
    /\ exit_status = <<>>
    /\ result = <<>>
    /\ fs = {}
    /\ calls = 0

\* ------------------------------------------------------------ the actions

\* def orthosnap_task(...): the call binds the parameters, defaults included.
\* Each call runs on a filesystem that is either the one the previous call
\* left behind or a fresh one.
Call ==
    /\ pc = "idle"
    /\ calls < MaxCalls
    /\ \E a \in ArgSets, fresh \in BOOLEAN :
        /\ args' = a
        /\ inparalog_to_keep' = a.inparalog_to_keep
        /\ rooted' = a.rooted
        /\ snap_trees' = a.snap_trees
        /\ support' = a.support
        /\ occupancy' = a.occupancy
        /\ fs' = IF fresh THEN {} ELSE fs
    /\ calls' = calls + 1
    /\ orthosnap_cmd' = <<>>
    /\ tool_runs' = <<>>
    /\ exit_status' = <<>>
    /\ result' = <<>>
    /\ pc' = "l77"

\* mutant: every policy is rewritten to the default, not only the sentinel
NormalizePolicy_AllDefault(p) == "longest_seq_len"

\* mutant: the sentinel is not rewritten
NormalizePolicy_Keep(p) == p

\* if inparalog_to_keep.value == "none": inparalog_to_keep = longest_seq_len
NormalizePolicy(p) ==
    IF InparalogToKeep[p] = "none" THEN "longest_seq_len" ELSE p

L77 ==
    /\ pc = "l77"
    /\ inparalog_to_keep' = NormalizePolicy(inparalog_to_keep)
    /\ pc' = "l80"
    /\ UNCHANGED <<args, rooted, snap_trees, support, occupancy, orthosnap_cmd,
                   tool_runs, exit_status, result, fs, calls>>

\* mutant: a null support is left as it is
NormalizeSupport_Keep(s) == s

\* if support == None: support = 0.0
NormalizeSupport(s) == IF s = None THEN Some(0) ELSE s

L80 ==
    /\ pc = "l80"
    /\ support' = NormalizeSupport(support)
    /\ pc' = "l84"
    /\ UNCHANGED <<args, inparalog_to_keep, rooted, snap_trees, occupancy,
                   orthosnap_cmd, tool_runs, exit_status, result, fs, calls>>

\* mutant: the tree and the fasta path change places
BuildCmd_Swapped(tree, fasta, s, o, p) ==
    << "orthosnap",
       "-t", fasta.local_path,
       "-f", tree.local_path,
       "-s", StrFloat(s),
       "-o", StrInt(o),
       "-ip", InparalogToKeep[p] >>

\* _orthosnap_cmd = ["orthosnap", "-t", ..., "-ip", inparalog_to_keep.value]
BuildCmd(tree, fasta, s, o, p) ==
    << "orthosnap",
       "-t", tree.local_path,
       "-f", fasta.local_path,
       "-s", StrFloat(s),
       "-o", StrInt(o),
       "-ip", InparalogToKeep[p] >>

L84 ==
    /\ pc = "l84"
    /\ orthosnap_cmd' = BuildCmd(args.multi_copy_gene_tree, args.multi_copy_fasta_file,
                                 support, occupancy, inparalog_to_keep)
    /\ pc' = "l98"
    /\ UNCHANGED <<args, inparalog_to_keep, rooted, snap_trees, support, occupancy,
                   tool_runs, exit_status, result, fs, calls>>

\* mutant: the flag is appended whatever rooted is
AppendRooted_Always(cmd, r) == Append(cmd, "-r")

\* if rooted: _orthosnap_cmd.append("-r")
AppendRooted(cmd, r) == IF r THEN Append(cmd, "-r") ELSE cmd

L98 ==
    /\ pc = "l98"
    /\ orthosnap_cmd' = AppendRooted(orthosnap_cmd, rooted)
    /\ pc' = "l101"
    /\ UNCHANGED <<args, inparalog_to_keep, rooted, snap_trees, support, occupancy,
                   tool_runs, exit_status, result, fs, calls>>

\* if snap_trees: _orthosnap_cmd.append("-st")
AppendSnapTrees(cmd, st) == IF st THEN Append(cmd, "-st") ELSE cmd

L101 ==
    /\ pc = "l101"
    /\ orthosnap_cmd' = AppendSnapTrees(orthosnap_cmd, snap_trees)
    /\ pc' = "l104"
    /\ UNCHANGED <<args, inparalog_to_keep, rooted, snap_trees, support, occupancy,
                   tool_runs, exit_status, result, fs, calls>>

\* _orthosnap_cmd.append("-op"); _orthosnap_cmd.append(local_dir)
AppendOutput(cmd) == Append(Append(cmd, "-op"), local_dir)

L104 ==
    /\ pc = "l104"
    /\ orthosnap_cmd' = AppendOutput(orthosnap_cmd)
    /\ pc' = "l109"
    /\ UNCHANGED <<args, inparalog_to_keep, rooted, snap_trees, support, occupancy,
                   tool_runs, exit_status, result, fs, calls>>

\* subprocess.run(_orthosnap_cmd): the child is started with the vector
RunTool ==
    /\ pc = "l109"
    /\ tool_runs' = Append(tool_runs, orthosnap_cmd)
    /\ pc' = "running"
    /\ UNCHANGED <<args, inparalog_to_keep, rooted, snap_trees, support, occupancy,
                   orthosnap_cmd, exit_status, result, fs, calls>>

\* subprocess.run(_orthosnap_cmd): the executable cannot be started (OSError)
RunToolFails ==
    /\ pc = "l109"
    /\ pc' = "raised"
    /\ UNCHANGED <<args, inparalog_to_keep, rooted, snap_trees, support, occupancy,
                   orthosnap_cmd, tool_runs, exit_status, result, fs, calls>>

\* the value that follows flag in the vector cmd (<<>> when there is none)
ValueOf(cmd, flag) ==
    LET I == { i \in 1..(Len(cmd) - 1) : cmd[i] = flag }
    IN  IF I = {} THEN <<>>
        ELSE <<cmd[(CHOOSE i \in I : \A j \in I : i <= j) + 1]>>

\* mutant: check=True, a non-zero status raises CalledProcessError
AfterExit_Checked(code) == IF code = 0 THEN "l112" ELSE "raised"

\* mutant: a failed run is tried again
AfterExit_Retry(code) == IF code = 0 THEN "l112" ELSE "l109"

\* where the child goes once it has exited with status code: subprocess.run
\* is called without check=True, so every status continues at the return
AfterExit(code) == "l112"

\* subprocess.run(_orthosnap_cmd): the child writes its files, or none, under
\* the directory it was given after -op and exits; run() returns
ToolExit ==
    /\ pc = "running"
    /\ \E code \in ExitCodes, wrote \in BOOLEAN :
        /\ exit_status' = <<code>>
        /\ fs' = IF wrote /\ ValueOf(tool_runs[Len(tool_runs)], "-op") # <<>>
                 THEN fs \cup { [dir   |-> ValueOf(tool_runs[Len(tool_runs)], "-op")[1],
                                 owner |-> calls] }
                 ELSE fs
        /\ pc' = AfterExit(code)
    /\ UNCHANGED <<args, inparalog_to_keep, rooted, snap_trees, support, occupancy,
                   orthosnap_cmd, tool_runs, result, calls>>

\* mutant: the handle wraps the caller's directory, not the tool's
ReturnValue_CallerDir(out) == LatchDir(out.local_path, out.remote_path)

\* return LatchDir(local_dir, output_dir.remote_path)
ReturnValue(out) == LatchDir(local_dir, out.remote_path)

Return ==
    /\ pc = "l112"
    /\ result' = <<ReturnValue(args.output_dir)>>
    /\ pc' = "done"
    /\ UNCHANGED <<args, inparalog_to_keep, rooted, snap_trees, support, occupancy,
                   orthosnap_cmd, tool_runs, exit_status, fs, calls>>

\* the task's frame is gone once it has returned or raised; only the files
\* on the local filesystem outlive the invocation
Exit ==
    /\ pc \in {"done", "raised"}
    /\ pc' = "idle"
    /\ args' = NoArgs
    /\ inparalog_to_keep' = "none"
    /\ rooted' = FALSE
    /\ snap_trees' = FALSE
    /\ support' = None
    /\ occupancy' = None
    /\ orthosnap_cmd' = <<>>
    /\ tool_runs' = <<>>
    /\ exit_status' = <<>>
    /\ result' = <<>>
    /\ UNCHANGED <<fs, calls>>

Next ==
    \/ Call
    \/ L77
    \/ L80
    \/ L84
    \/ L98
    \/ L101
    \/ L104
    \/ RunTool
    \/ RunToolFails
    \/ ToolExit
    \/ Return
    \/ Exit

Spec == Init /\ [][Next]_vars


\* ------------------------------------------------------------- the claims

Range(s) == { s[i] : i \in 1..Len(s) }

\* the positions from which the argument vector is complete
BuiltPcs == { "l109", "running", "l112", "done", "raised" }

\* every complete argument vector of the current invocation: the local one
\* and the ones handed to the external tool
BuiltVectors ==
    (IF pc \in BuiltPcs THEN {orthosnap_cmd} ELSE {}) \cup Range(tool_runs)

SupportOmitted == "support" \in args.omitted
OccupancyOmitted == "occupancy" \in args.omitted

\* C1: for each of the six named policies the token after -ip is the
\* policy's identifier, whatever the other parameters are.
C1_PolicyVerbatim ==
    args.inparalog_to_keep # "none" =>
        \A v \in BuiltVectors : ValueOf(v, "-ip") = <<args.inparalog_to_keep>>

C1_Witness ==
    /\ pc = "running"
    /\ args.inparalog_to_keep = "median_branch_len"
    /\ ValueOf(tool_runs[1], "-ip") = <<"median_branch_len">>

\* C2: with the none sentinel the token after -ip is longest_seq_len, and
\* no vector handed to the tool carries none as its policy token.
C2_NoneIsLongestSeqLen ==
    /\ args.inparalog_to_keep = "none" =>
          \A v \in BuiltVectors : ValueOf(v, "-ip") = <<"longest_seq_len">>
    /\ \A k \in 1..Len(tool_runs) : ValueOf(tool_runs[k], "-ip") # <<"none">>

C2_Witness ==
    /\ pc = "running"
    /\ args.inparalog_to_keep = "none"
    /\ ValueOf(tool_runs[1], "-ip") = <<"longest_seq_len">>

\* the number as the caller wrote it: 70 for 70.0, 75.5 for 75.5
AsWritten(x) ==
    IF x[1] % 10 = 0 THEN ToString(x[1] \div 10)
    ELSE ToString(x[1] \div 10) \o "." \o ToString(x[1] % 10)

\* C3 as stated: the token after -s is 0.0 when support is absent or null,
\* and otherwise the supplied number unchanged (70 gives "70").
C3_AsStated ==
    \A v \in BuiltVectors :
        ValueOf(v, "-s") =
            << IF SupportOmitted \/ args.support = None THEN "0.0"
               ELSE AsWritten(args.support) >>

\* C3 amended: the token after -s is 0.0 when support is passed as null,
\* 80.0 (the default) when support is left out, and otherwise str() of the
\* supplied float, which always has a fractional part (70 gives "70.0").
C3_SupportToken ==
    \A v \in BuiltVectors :
        /\ ValueOf(v, "-s") =
              << IF SupportOmitted THEN "80.0"
                 ELSE IF args.support = None THEN "0.0"
                 ELSE StrFloat(args.support) >>
        /\ (~SupportOmitted /\ args.support = Some(700)) => ValueOf(v, "-s") = <<"70.0">>
        /\ (~SupportOmitted /\ args.support = Some(755)) => ValueOf(v, "-s") = <<"75.5">>

C3_Witness ==
    /\ pc = "running"
    /\ ~SupportOmitted
    /\ args.support = None
    /\ ValueOf(tool_runs[1], "-s") = <<"0.0">>

\* C4: -r is in the vector exactly when rooted is true, -st exactly when
\* snap_trees is true, and no boolean literal is emitted for either.
C4_FlagsIffTrue ==
    \A v \in BuiltVectors :
        /\ ("-r" \in Range(v)) <=> args.rooted
        /\ ("-st" \in Range(v)) <=> args.snap_trees
        /\ Range(v) \cap {"True", "False", "true", "false"} = {}

C4_Witness ==
    /\ pc = "running"
    /\ args.rooted
    /\ ~args.snap_trees
    /\ "-r" \in Range(tool_runs[1])
    /\ "-st" \notin Range(tool_runs[1])

\* C5: when the caller supplies no occupancy the tool's own default is in
\* effect, that is, no -o value fixed by the adapter reaches the tool; a
\* supplied occupancy is the token after -o.
C5_ToolDefaultOccupancy ==
    \A k \in 1..Len(tool_runs) :
        /\ OccupancyOmitted => ValueOf(tool_runs[k], "-o") = <<>>
        /\ (~OccupancyOmitted /\ args.occupancy # None) =>
              ValueOf(tool_runs[k], "-o") = <<ToString(args.occupancy[1])>>

\* C6: once the tool has exited, with whatever status and with or without
\* output, the task goes on to return, and returns the handle of a success.
C6_ExitStatusIgnored ==
    exit_status # <<>> =>
        /\ pc \in {"l112", "done"}
        /\ pc = "done" =>
              result = <<LatchDir(local_dir, args.output_dir.remote_path)>>

C6_Witness ==
    /\ pc = "done"
    /\ exit_status = <<1>>
    /\ \A f \in fs : f.owner # calls
    /\ result # <<>>

\* C7: the returned handle pairs the fixed local output directory, the one
\* the tool was given after -op, with output_dir's remote path.
C7_HandleComponents ==
    pc = "done" =>
        /\ Len(result) = 1
        /\ result[1].local_path = local_dir
        /\ \A k \in 1..Len(tool_runs) :
              ValueOf(tool_runs[k], "-op") = <<result[1].local_path>>
        /\ result[1].remote_path = args.output_dir.remote_path

C7_Witness ==
    /\ pc = "done"
    /\ args.output_dir.remote_path = "latch:///out_y/"
    /\ result = <<LatchDir("/root/orthosnap_output/", "latch:///out_y/")>>

\* C8: the directory behind a returned handle holds only files written by
\* the invocation that returned it.
C8_OwnWorkingDirectory ==
    pc = "done" =>
        \A f \in fs : f.dir = result[1].local_path => f.owner = calls

\* C9: the vector is orthosnap, -t tree, -f fasta, -s support, -o occupancy,
\* -ip policy, then the optional -r and -st, then -op and the fixed path;
\* each value flag is followed by exactly one value token.
Flags == { "-t", "-f", "-s", "-o", "-ip", "-r", "-st", "-op" }

C9_VectorShape ==
    \A v \in BuiltVectors :
        /\ Len(v) >= 13
        /\ SubSeq(v, 1, 2) = <<"orthosnap", "-t">>
        /\ v[3] = args.multi_copy_gene_tree.local_path
        /\ v[4] = "-f"
        /\ v[5] = args.multi_copy_fasta_file.local_path
        /\ v[6] = "-s" /\ v[7] \notin Flags
        /\ v[8] = "-o" /\ v[9] \notin Flags
        /\ v[10] = "-ip" /\ v[11] \notin Flags
        /\ SubSeq(v, 12, Len(v)) \in
              { <<"-op", "/root/orthosnap_output/">>,
                <<"-r", "-op", "/root/orthosnap_output/">>,
                <<"-st", "-op", "/root/orthosnap_output/">>,
                <<"-r", "-st", "-op", "/root/orthosnap_output/">> }

C9_Witness ==
    /\ pc = "running"
    /\ Len(tool_runs[1]) = 15
    /\ tool_runs[1][3] = "/tmp/tree_b.tre"
    /\ tool_runs[1][5] = "/tmp/fam_a.fa"

\* C10: the tool is started once per invocation, with the complete vector,
\* the handle is returned only after the tool has exited, and a failed run
\* is not started again.
C10_SingleSynchronousRun ==
    /\ Len(tool_runs) <= 1
    /\ pc \in {"running", "l112", "done"} => Len(tool_runs) = 1
    /\ \A k \in 1..Len(tool_runs) :
          /\ tool_runs[k] = orthosnap_cmd
          /\ Len(tool_runs[k]) >= 13
          /\ SubSeq(tool_runs[k], Len(tool_runs[k]) - 1, Len(tool_runs[k]))
                = <<"-op", local_dir>>
    /\ result # <<>> => (pc = "done" /\ exit_status # <<>>)
    /\ pc = "running" => exit_status = <<>>

C10_Witness ==
    /\ pc = "done"
    /\ exit_status = <<2>>
    /\ Len(tool_runs) = 1

====
